---- MODULE Spec2Model ----
(***************************************************************************)
(* Model of src/src/permission_request.py: the PermissionManager registry  *)
(* of PermissionRequest records, its lifecycle operations and its durable  *)
(* JSON store.                                                             *)
(*                                                                         *)
(* A Python dict is modelled as a sequence of [k, v] entries in insertion  *)
(* order.  A timestamp is the integer number of clock ticks; the ISO-8601  *)
(* strings of one UTC clock order exactly as the instants they denote.     *)
(* The second-resolution stamp of a request id is ticks \div               *)
(* TicksPerSecond.                                                         *)
(***************************************************************************)
EXTENDS Integers, Sequences, FiniteSets, TLC

VARIABLES requests, store, clock, last, returned, peer

vars == <<requests, store, clock, last, returned, peer>>

-----------------------------------------------------------------------------
(* Bounds of the model *)

MaxRequests == 2

MaxClock == 1

TicksPerSecond == 1

-----------------------------------------------------------------------------
(* Enumerations *)

None == "None"

PENDING == "PENDING"
GRANTED == "GRANTED"
DENIED == "DENIED"
REVOKED == "REVOKED"

PermissionStatus == {PENDING, GRANTED, DENIED, REVOKED}

WORLD_BANK_API == "WORLD_BANK_API"
OPENAQ_KAGGLE == "OPENAQ_KAGGLE"
CUSTOM == "CUSTOM"

DataSource == {WORLD_BANK_API, OPENAQ_KAGGLE, CUSTOM}

\* Enum.value of a member
EnumValue(member) ==
    CASE member = PENDING -> "pending"
      [] member = GRANTED -> "granted"
      [] member = DENIED -> "denied"
      [] member = REVOKED -> "revoked"
      [] member = WORLD_BANK_API -> "world_bank_api"
      [] member = OPENAQ_KAGGLE -> "openaq_kaggle"
      [] member = CUSTOM -> "custom"

\* Enum(value): the member with that value; None stands for the ValueError
EnumLookup(enum, value) ==
    IF \E m \in enum : EnumValue(m) = value
    THEN CHOOSE m \in enum : EnumValue(m) = value
    ELSE None

\* Python truthiness of an Optional[str]
Truthy(x) == x # None /\ x # ""

NonexistentId == <<"nonexistent-id">>

-----------------------------------------------------------------------------
(* dict helpers *)

Keys(d) == {d[i].k : i \in DOMAIN d}

HasKey(d, key) == \E i \in DOMAIN d : d[i].k = key

IndexOf(d, key) == CHOOSE i \in DOMAIN d : d[i].k = key

Get(d, key) == d[IndexOf(d, key)].v

\* d[key] = value with the key moved behind all others
Put_moves_to_end(d, key, value) ==
    Append(SelectSeq(d, LAMBDA e : e.k # key), [k |-> key, v |-> value])

\* d[key] = value: an existing key keeps its position, a new key goes last
Put(d, key, value) ==
    IF HasKey(d, key)
    THEN [d EXCEPT ![IndexOf(d, key)].v = value]
    ELSE Append(d, [k |-> key, v |-> value])

-----------------------------------------------------------------------------
(* PermissionRequest and its serialization *)

\* a request whose two timestamps are taken in the opposite order
PermissionRequest_swapped_stamps(request_id, requester, data_source, purpose, notes, t_created, t_updated) ==
    [request_id |-> request_id,
     requester |-> requester,
     data_source |-> data_source,
     purpose |-> purpose,
     status |-> PENDING,
     created_at |-> t_updated,
     updated_at |-> t_created,
     granted_by |-> None,
     notes |-> notes]

\* a request constructed without the notes it was given
PermissionRequest_without_notes(request_id, requester, data_source, purpose, notes, t_created, t_updated) ==
    [request_id |-> request_id,
     requester |-> requester,
     data_source |-> data_source,
     purpose |-> purpose,
     status |-> PENDING,
     created_at |-> t_created,
     updated_at |-> t_updated,
     granted_by |-> None,
     notes |-> None]

PermissionRequest(request_id, requester, data_source, purpose, notes, t_created, t_updated) ==
    [request_id |-> request_id,
     requester |-> requester,
     data_source |-> data_source,
     purpose |-> purpose,
     status |-> PENDING,
     created_at |-> t_created,
     updated_at |-> t_updated,
     granted_by |-> None,
     notes |-> notes]

\* the enum members written as they are, not as their values
to_dict_keeps_members(self) == self

to_dict(self) ==
    [self EXCEPT !.data_source = EnumValue(self.data_source),
                 !.status = EnumValue(self.status)]

\* an exception raised instead of a value
Raised(exc) == [error |-> exc]

IsRaised(x) == "error" \in DOMAIN x

\* the fields of the dataclass, and those __init__ takes without a default
FieldNames ==
    {"request_id", "requester", "data_source", "purpose", "status",
     "created_at", "updated_at", "granted_by", "notes"}

RequiredFields == {"request_id", "requester", "data_source", "purpose"}

\* the status left as the string read, not looked up in PermissionStatus
from_dict_keeps_status_value(data) ==
    IF "data_source" \notin DOMAIN data THEN Raised("KeyError")
    ELSE IF EnumLookup(DataSource, data.data_source) = None THEN Raised("ValueError")
    ELSE IF "status" \notin DOMAIN data THEN Raised("KeyError")
    ELSE IF ~(DOMAIN data \subseteq FieldNames) \/ ~(RequiredFields \subseteq DOMAIN data)
    THEN Raised("TypeError")
    ELSE [f \in FieldNames |->
            IF f \notin DOMAIN data THEN None
            ELSE IF f = "data_source" THEN EnumLookup(DataSource, data.data_source)
            ELSE data[f]]

\* data["data_source"] and data["status"] raise KeyError on a missing key,
\* DataSource(...) and PermissionStatus(...) raise ValueError on an unknown
\* value, cls(**data) raises TypeError on an unknown or a missing required
\* field and takes None for an omitted granted_by or notes.  (An omitted
\* created_at or updated_at would read the clock; the dicts modelled all
\* carry both.)
from_dict(data) ==
    IF "data_source" \notin DOMAIN data THEN Raised("KeyError")
    ELSE IF EnumLookup(DataSource, data.data_source) = None THEN Raised("ValueError")
    ELSE IF "status" \notin DOMAIN data THEN Raised("KeyError")
    ELSE IF EnumLookup(PermissionStatus, data.status) = None THEN Raised("ValueError")
    ELSE IF ~(DOMAIN data \subseteq FieldNames) \/ ~(RequiredFields \subseteq DOMAIN data)
    THEN Raised("TypeError")
    ELSE [f \in FieldNames |->
            IF f \notin DOMAIN data THEN None
            ELSE IF f = "data_source" THEN EnumLookup(DataSource, data.data_source)
            ELSE IF f = "status" THEN EnumLookup(PermissionStatus, data.status)
            ELSE data[f]]

-----------------------------------------------------------------------------
(* JSON: the values json.dumps writes and json.loads reads back.  The      *)
(* top-level object keeps its members in order, as entries [k, v]; the     *)
(* object of one request is a function of its member names.                *)

JsonNull == [t |-> "null"]

JsonString(s) == [t |-> "string", s |-> s]

JsonArray == [t |-> "array"]

JsonObject(members) == [t |-> "object", members |-> members]

\* the fields whose Python value may be None
OptionalFields == {"granted_by", "notes"}

\* json.dumps of one to_dict() result: None becomes null, a str a string
json_dumps(d) ==
    JsonObject([f \in DOMAIN d |->
                  IF f \in OptionalFields /\ d[f] = None
                  THEN JsonNull
                  ELSE JsonString(d[f])])

\* json.loads of one object: null becomes None, a string a str
json_loads(j) ==
    [f \in DOMAIN j.members |->
       IF j.members[f].t = "null" THEN None ELSE j.members[f].s]

-----------------------------------------------------------------------------
(* The durable store: absent, or a file holding text *)

Absent == [exists |-> FALSE]

\* a file whose text json.loads rejects (the empty file of a fresh temp file)
Unparsable == [exists |-> TRUE, parses |-> FALSE]

\* a file holding the text of a JSON value
JsonFile(data) == [exists |-> TRUE, parses |-> TRUE, data |-> data]

_save(reqs) ==
    JsonFile(JsonObject([i \in DOMAIN reqs |->
                           [k |-> reqs[i].k, v |-> json_dumps(to_dict(reqs[i].v))]]))

\* PermissionRequest.from_dict(v) for one value of the loaded mapping:
\* subscripting a value that is no mapping raises TypeError
from_dict_item(v) ==
    IF v.t # "object" THEN Raised("TypeError") ELSE from_dict(json_loads(v))

\* the exception the dict comprehension of _load raises: that of the first
\* item whose from_dict raises, None when none does
comprehension_raises(items) ==
    IF \E i \in DOMAIN items : IsRaised(from_dict_item(items[i].v))
    THEN LET first == CHOOSE i \in DOMAIN items :
                        /\ IsRaised(from_dict_item(items[i].v))
                        /\ \A j \in 1..(i - 1) : ~IsRaised(from_dict_item(items[j].v))
         IN  from_dict_item(items[first].v).error
    ELSE None

\* the exception _load lets through to the caller, None when it returns:
\* data.items() raises AttributeError when the text is not a JSON object,
\* and only JSONDecodeError, KeyError and ValueError are caught
_load_raises(st) ==
    IF ~st.exists \/ ~st.parses THEN None
    ELSE IF st.data.t # "object" THEN "AttributeError"
    ELSE IF comprehension_raises(st.data.members) \in {None, "KeyError", "ValueError"}
    THEN None
    ELSE comprehension_raises(st.data.members)

\* a load that keeps the records it can read and drops the others
_load_skipping_invalid(st) ==
    IF ~st.exists THEN <<>>
    ELSE IF ~st.parses THEN <<>>
    ELSE LET readable == SelectSeq(st.data.members,
                                   LAMBDA e : ~IsRaised(from_dict_item(e.v)))
         IN  [i \in DOMAIN readable |->
                [k |-> readable[i].k, v |-> from_dict_item(readable[i].v)]]

\* self._requests when _load returns
_load(st) ==
    IF ~st.exists THEN <<>>
    ELSE IF ~st.parses THEN <<>>
    ELSE IF comprehension_raises(st.data.members) # None THEN <<>>
    ELSE [i \in DOMAIN st.data.members |->
            [k |-> st.data.members[i].k, v |-> from_dict_item(st.data.members[i].v)]]

-----------------------------------------------------------------------------
(* The record of the last call: the operation, its arguments, its outcome  *)
(* ("ok" or the exception raised), the request_id of the request it        *)
(* returned, the status its error message reports, the boolean a query     *)
(* answered, and the requests a query returned (list: the list; get: the   *)
(* one request, none for None)                                             *)

NoId == <<>>

NoCall ==
    [op |-> "init", request_id |-> NoId, requester |-> None, data_source |-> None,
     purpose |-> None, status |-> None, actor |-> None, notes |-> None,
     result |-> "ok", ret |-> NoId, message |-> None, answer |-> FALSE,
     out |-> <<>>]

Init ==
    /\ requests = <<>>
    /\ store \in {Absent, Unparsable}
    /\ clock = 0
    /\ last = NoCall
    /\ returned = {}
    /\ peer = <<>>

-----------------------------------------------------------------------------
(* Operations.  The parameters named now, t_id, t_created, t_updated are   *)
(* the readings of datetime.now() the call makes, in the order it makes    *)
(* them; the clock never runs backwards.                                   *)

\* the sequence counter taken from the requests still pending
_generate_request_id_counts_pending(reqs, now) ==
    <<"PR", now \div TicksPerSecond,
      Cardinality({i \in DOMAIN reqs : reqs[i].v.status = PENDING}) + 1>>

\* the id without the sequence counter
_generate_request_id_no_count(reqs, now) ==
    <<"PR", now \div TicksPerSecond, 1>>

_generate_request_id(reqs, now) ==
    <<"PR", now \div TicksPerSecond, Len(reqs) + 1>>

\* create that reads the store again before it adds the request
create_request_reloading(requester, data_source, purpose, notes, t_id, t_created, t_updated) ==
    /\ Len(_load(store)) < MaxRequests
    /\ clock <= t_id /\ t_id <= t_created /\ t_created <= t_updated
    /\ LET request_id == _generate_request_id(_load(store), t_id)
           request == PermissionRequest(request_id, requester, data_source,
                                        purpose, notes, t_created, t_updated)
       IN  /\ requests' = Put(_load(store), request_id, request)
           /\ store' = _save(requests')
           /\ clock' = t_updated
           /\ last' = [NoCall EXCEPT !.op = "create", !.requester = requester,
                                      !.data_source = data_source,
                                      !.purpose = purpose, !.notes = notes,
                                      !.ret = request_id]
           /\ returned' = returned \cup {request_id}
           /\ UNCHANGED peer

create_request(requester, data_source, purpose, notes, t_id, t_created, t_updated) ==
    /\ Len(requests) < MaxRequests
    /\ clock <= t_id /\ t_id <= t_created /\ t_created <= t_updated
    /\ LET request_id == _generate_request_id(requests, t_id)
           request == PermissionRequest(request_id, requester, data_source,
                                        purpose, notes, t_created, t_updated)
       IN  /\ requests' = Put(requests, request_id, request)
           /\ store' = _save(requests')
           /\ clock' = t_updated
           /\ last' = [NoCall EXCEPT !.op = "create", !.requester = requester,
                                      !.data_source = data_source,
                                      !.purpose = purpose, !.notes = notes,
                                      !.ret = request_id]
           /\ returned' = returned \cup {request_id}
           /\ UNCHANGED peer

\* a call that raises: nothing but the record of the call changes
Raise(op, request_id, actor, notes, exc, message) ==
    /\ last' = [NoCall EXCEPT !.op = op, !.request_id = request_id, !.actor = actor,
                               !.notes = notes, !.result = exc, !.message = message]
    /\ UNCHANGED <<requests, store, clock, returned, peer>>

\* a transition that leaves the updated request alone in the registry
Commit_replaces_registry(op, request_id, actor, notes, request, now) ==
    /\ clock <= now
    /\ requests' = <<[k |-> request_id, v |-> request]>>
    /\ store' = _save(requests')
    /\ clock' = now
    /\ last' = [NoCall EXCEPT !.op = op, !.request_id = request_id, !.actor = actor,
                               !.notes = notes, !.ret = request_id]
    /\ UNCHANGED <<returned, peer>>

\* a transition that went through: the request is updated in place and the
\* whole registry is saved
Commit(op, request_id, actor, notes, request, now) ==
    /\ clock <= now
    /\ requests' = Put(requests, request_id, request)
    /\ store' = _save(requests')
    /\ clock' = now
    /\ last' = [NoCall EXCEPT !.op = op, !.request_id = request_id, !.actor = actor,
                               !.notes = notes, !.ret = request_id]
    /\ UNCHANGED <<returned, peer>>

\* grant refused only for a request that is already granted
grant_allowed_unless_granted(request) == request.status # GRANTED

grant_allowed(request) == request.status = PENDING

\* grant that stamps created_at as well
grant_update_restamps_created(request, granted_by, notes, now) ==
    [request EXCEPT !.status = GRANTED,
                    !.granted_by = granted_by,
                    !.created_at = now,
                    !.updated_at = now,
                    !.notes = IF Truthy(notes) THEN notes ELSE @]

\* grant that does not record the actor
grant_update_no_actor(request, granted_by, notes, now) ==
    [request EXCEPT !.status = GRANTED,
                    !.updated_at = now,
                    !.notes = IF Truthy(notes) THEN notes ELSE @]

grant_update(request, granted_by, notes, now) ==
    [request EXCEPT !.status = GRANTED,
                    !.granted_by = granted_by,
                    !.updated_at = now,
                    !.notes = IF Truthy(notes) THEN notes ELSE @]

\* the error of a refused grant names the status grant requires
grant_permission_reports_required(request_id, granted_by, notes, now) ==
    IF ~HasKey(requests, request_id)
    THEN Raise("grant", request_id, granted_by, notes, "KeyError",
               "not found")
    ELSE LET request == Get(requests, request_id)
         IN  IF ~grant_allowed(request)
             THEN Raise("grant", request_id, granted_by, notes, "ValueError",
                        EnumValue(PENDING))
             ELSE Commit("grant", request_id, granted_by, notes,
                         grant_update(request, granted_by, notes, now), now)

grant_permission(request_id, granted_by, notes, now) ==
    IF ~HasKey(requests, request_id)
    THEN Raise("grant", request_id, granted_by, notes, "KeyError",
               "not found")
    ELSE LET request == Get(requests, request_id)
         IN  IF ~grant_allowed(request)
             THEN Raise("grant", request_id, granted_by, notes, "ValueError",
                        EnumValue(request.status))
             ELSE Commit("grant", request_id, granted_by, notes,
                         grant_update(request, granted_by, notes, now), now)

\* deny accepted for a granted request too
deny_allowed_or_granted(request) == request.status \in {PENDING, GRANTED}

deny_allowed(request) == request.status = PENDING

\* deny that assigns the notes argument whatever it is
deny_update_overwrites_notes(request, denied_by, notes, now) ==
    [request EXCEPT !.status = DENIED,
                    !.granted_by = denied_by,
                    !.updated_at = now,
                    !.notes = notes]

\* deny that does not record the actor
deny_update_no_actor(request, denied_by, notes, now) ==
    [request EXCEPT !.status = DENIED,
                    !.updated_at = now,
                    !.notes = IF Truthy(notes) THEN notes ELSE @]

deny_update(request, denied_by, notes, now) ==
    [request EXCEPT !.status = DENIED,
                    !.granted_by = denied_by,
                    !.updated_at = now,
                    !.notes = IF Truthy(notes) THEN notes ELSE @]

deny_permission(request_id, denied_by, notes, now) ==
    IF ~HasKey(requests, request_id)
    THEN Raise("deny", request_id, denied_by, notes, "KeyError",
               "not found")
    ELSE LET request == Get(requests, request_id)
         IN  IF ~deny_allowed(request)
             THEN Raise("deny", request_id, denied_by, notes, "ValueError",
                        EnumValue(request.status))
             ELSE Commit("deny", request_id, denied_by, notes,
                         deny_update(request, denied_by, notes, now), now)

\* revoke accepted for every request that is not pending
revoke_allowed_unless_pending(request) == request.status # PENDING

revoke_allowed(request) == request.status = GRANTED

\* revoke that clears granted_by
revoke_update_clears_actor(request, revoked_by, notes, now) ==
    [request EXCEPT !.status = REVOKED,
                    !.granted_by = None,
                    !.updated_at = now,
                    !.notes = IF Truthy(notes) THEN notes ELSE @]

\* revoke that keeps the grantor
revoke_update_keeps_grantor(request, revoked_by, notes, now) ==
    [request EXCEPT !.status = REVOKED,
                    !.updated_at = now,
                    !.notes = IF Truthy(notes) THEN notes ELSE @]

revoke_update(request, revoked_by, notes, now) ==
    [request EXCEPT !.status = REVOKED,
                    !.granted_by = revoked_by,
                    !.updated_at = now,
                    !.notes = IF Truthy(notes) THEN notes ELSE @]

\* revoke that reports an unknown id as an invalid transition
revoke_permission_unknown_as_invalid(request_id, revoked_by, notes, now) ==
    IF ~HasKey(requests, request_id)
    THEN Raise("revoke", request_id, revoked_by, notes, "ValueError", "not found")
    ELSE LET request == Get(requests, request_id)
         IN  IF ~revoke_allowed(request)
             THEN Raise("revoke", request_id, revoked_by, notes, "ValueError",
                        EnumValue(request.status))
             ELSE Commit("revoke", request_id, revoked_by, notes,
                         revoke_update(request, revoked_by, notes, now), now)

revoke_permission(request_id, revoked_by, notes, now) ==
    IF ~HasKey(requests, request_id)
    THEN Raise("revoke", request_id, revoked_by, notes, "KeyError",
               "not found")
    ELSE LET request == Get(requests, request_id)
         IN  IF ~revoke_allowed(request)
             THEN Raise("revoke", request_id, revoked_by, notes, "ValueError",
                        EnumValue(request.status))
             ELSE Commit("revoke", request_id, revoked_by, notes,
                         revoke_update(request, revoked_by, notes, now), now)

\* the loop without the comparison of the data source
RECURSIVE has_permission_from_any_source(_, _, _, _)
has_permission_from_any_source(reqs, i, requester, data_source) ==
    IF i > Len(reqs) THEN FALSE
    ELSE IF /\ reqs[i].v.requester = requester
            /\ reqs[i].v.status = GRANTED
         THEN TRUE
         ELSE has_permission_from_any_source(reqs, i + 1, requester, data_source)

\* the loop that takes every status but pending as a grant
RECURSIVE has_permission_from_unless_pending(_, _, _, _)
has_permission_from_unless_pending(reqs, i, requester, data_source) ==
    IF i > Len(reqs) THEN FALSE
    ELSE IF /\ reqs[i].v.requester = requester
            /\ reqs[i].v.data_source = data_source
            /\ reqs[i].v.status # PENDING
         THEN TRUE
         ELSE has_permission_from_unless_pending(reqs, i + 1, requester, data_source)

\* the loop of has_permission over self._requests.values(), from position i
RECURSIVE has_permission_from(_, _, _, _)
has_permission_from(reqs, i, requester, data_source) ==
    IF i > Len(reqs) THEN FALSE
    ELSE IF /\ reqs[i].v.requester = requester
            /\ reqs[i].v.data_source = data_source
            /\ reqs[i].v.status = GRANTED
         THEN TRUE
         ELSE has_permission_from(reqs, i + 1, requester, data_source)

\* the query writes the registry to the store before it answers
has_permission_saving(requester, data_source) ==
    /\ last' = [NoCall EXCEPT !.op = "has_permission", !.requester = requester,
                               !.data_source = data_source,
                               !.answer = has_permission_from(requests, 1, requester,
                                                              data_source)]
    /\ store' = _save(requests)
    /\ UNCHANGED <<requests, clock, returned, peer>>

has_permission(requester, data_source) ==
    /\ last' = [NoCall EXCEPT !.op = "has_permission", !.requester = requester,
                               !.data_source = data_source,
                               !.answer = has_permission_from(requests, 1, requester,
                                                              data_source)]
    /\ UNCHANGED <<requests, store, clock, returned, peer>>

\* list(self._requests.values())
Values(d) == [i \in DOMAIN d |-> d[i].v]

\* the requester filter left out
list_filtered_any_requester(reqs, status, data_source, requester) ==
    LET all == Values(reqs)
        by_status == IF status # None
                     THEN SelectSeq(all, LAMBDA r : r.status = status)
                     ELSE all
    IN  IF data_source # None
        THEN SelectSeq(by_status, LAMBDA r : r.data_source = data_source)
        ELSE by_status

\* the list list_requests builds: each filter that is not None is applied in
\* turn to the list of all stored requests
list_filtered(reqs, status, data_source, requester) ==
    LET all == Values(reqs)
        by_status == IF status # None
                     THEN SelectSeq(all, LAMBDA r : r.status = status)
                     ELSE all
        by_source == IF data_source # None
                     THEN SelectSeq(by_status, LAMBDA r : r.data_source = data_source)
                     ELSE by_status
    IN  IF requester # None
        THEN SelectSeq(by_source, LAMBDA r : r.requester = requester)
        ELSE by_source

list_requests(status, data_source, requester) ==
    /\ last' = [NoCall EXCEPT !.op = "list", !.status = status,
                               !.data_source = data_source, !.requester = requester,
                               !.out = list_filtered(requests, status, data_source,
                                                     requester)]
    /\ UNCHANGED <<requests, store, clock, returned, peer>>

\* dict.get(key): the value in a list of one, the empty list for None
dict_get(d, key) == IF HasKey(d, key) THEN <<Get(d, key)>> ELSE <<>>

\* self._requests[request_id] in place of .get: an unknown id raises
get_request_subscript(request_id) ==
    /\ last' = IF HasKey(requests, request_id)
               THEN [NoCall EXCEPT !.op = "get", !.request_id = request_id,
                                   !.out = <<Get(requests, request_id)>>]
               ELSE [NoCall EXCEPT !.op = "get", !.request_id = request_id,
                                   !.result = "KeyError"]
    /\ UNCHANGED <<requests, store, clock, returned, peer>>

get_request(request_id) ==
    /\ last' = [NoCall EXCEPT !.op = "get", !.request_id = request_id,
                               !.out = dict_get(requests, request_id)]
    /\ UNCHANGED <<requests, store, clock, returned, peer>>

\* the registry emptied, the file left where it is
clear_all_keeps_file ==
    /\ requests' = <<>>
    /\ last' = [NoCall EXCEPT !.op = "clear_all"]
    /\ UNCHANGED <<store, clock, returned, peer>>

clear_all ==
    /\ requests' = <<>>
    /\ store' = Absent
    /\ last' = [NoCall EXCEPT !.op = "clear_all"]
    /\ UNCHANGED <<clock, returned, peer>>

\* PermissionManager(storage_path) on the same store: a fresh registry, or
\* the exception __init__ lets through, which leaves the caller with the
\* registry it had
Construct ==
    /\ IF _load_raises(store) = None
       THEN /\ requests' = _load(store)
            /\ last' = [NoCall EXCEPT !.op = "construct"]
            /\ returned' = {}
       ELSE /\ last' = [NoCall EXCEPT !.op = "construct", !.result = _load_raises(store)]
            /\ UNCHANGED <<requests, returned>>
    /\ UNCHANGED <<store, clock, peer>>

\* the caller turns to the other PermissionManager constructed on the same
\* storage_path: the two registries change places, the file stays
SwitchInstance ==
    /\ requests' = peer
    /\ peer' = requests
    /\ last' = [NoCall EXCEPT !.op = "switch"]
    /\ UNCHANGED <<store, clock, returned>>

\* the file at storage_path written from outside the registry
WriteFile(files) ==
    \E f \in files :
        /\ store' = f
        /\ last' = [NoCall EXCEPT !.op = "write_file"]
        /\ UNCHANGED <<requests, clock, returned, peer>>

-----------------------------------------------------------------------------
(* Inputs and specifications *)

Requesters == {"alice", "bob"}

Sources == {WORLD_BANK_API, OPENAQ_KAGGLE}

Actors == {"admin", "security"}

\* notes a creation may be given: omitted, non-empty
CreateNotes == {None, "n0"}

\* notes a transition may be given: omitted, empty, non-empty
TransitionNotes == {None, "", "n1"}

Times == 0..MaxClock

\* request ids a caller may pass: every id create has returned or that is
\* stored, and one that never was
IdArgs == returned \cup Keys(requests) \cup {NonexistentId}

Create(requesters, sources, notes, times) ==
    \E r \in requesters, s \in sources, n \in notes :
        \E t1 \in times : \E t2 \in {t \in times : t1 <= t} :
          \E t3 \in {t \in times : t2 <= t} :
            create_request(r, s, "research", n, t1, t2, t3)

Grant(actors, notes, times) ==
    \E id \in IdArgs, a \in actors, n \in notes, now \in times :
        grant_permission(id, a, n, now)

Deny(actors, notes, times) ==
    \E id \in IdArgs, a \in actors, n \in notes, now \in times :
        deny_permission(id, a, n, now)

Revoke(actors, notes, times) ==
    \E id \in IdArgs, a \in actors, n \in notes, now \in times :
        revoke_permission(id, a, n, now)

HasPermission(requesters, sources) ==
    \E r \in requesters, s \in sources : has_permission(r, s)

\* filters of list_requests: None leaves the filter out
StatusFilters == {None} \cup PermissionStatus

SourceFilters == {None} \cup Sources

RequesterFilters == {None} \cup Requesters

ListRequests(statuses, sources, requesters) ==
    \E st \in statuses, s \in sources, r \in requesters : list_requests(st, s, r)

GetRequest ==
    \E id \in IdArgs : get_request(id)

\* one registry at one instant of the clock: requests of every requester for
\* every source, granted and denied by "admin", revoked by "security"
Next ==
    \/ Create(Requesters, Sources, {None}, {0})
    \/ Grant({"admin"}, {None}, {0})
    \/ Deny({"admin"}, {None}, {0})
    \/ Revoke({"security"}, {None}, {0})
    \/ HasPermission(Requesters, Sources)

Spec == Init /\ [][Next]_vars

\* one registry with a running clock: requests of one requester for one
\* source, granted by every actor
NextClock ==
    \/ Create({"alice"}, {WORLD_BANK_API}, {None}, Times)
    \/ Grant(Actors, {None}, Times)
    \/ Deny({"admin"}, {None}, Times)
    \/ Revoke({"admin"}, {None}, Times)
    \/ HasPermission({"alice"}, {WORLD_BANK_API})

SpecClock == Init /\ [][NextClock]_vars

\* registries constructed, cleared and constructed again on one store
NextStore ==
    \/ Create({"alice"}, {WORLD_BANK_API}, {None}, Times)
    \/ Grant({"admin"}, {None}, Times)
    \/ Revoke({"admin"}, {None}, Times)
    \/ clear_all
    \/ Construct

SpecStore == Init /\ [][NextStore]_vars

\* the members of the JSON object _save writes for one pending request
SavedMembers ==
    json_dumps(to_dict(PermissionRequest(<<"PR", 0, 1>>, "alice", WORLD_BANK_API,
                                         "research", None, 0, 0))).members

\* values of the top-level mapping that are not a saved request: no mapping,
\* a required field missing, the status key missing, an unknown field, an
\* unrecognised status, an unrecognised data_source
InvalidRecords ==
    {JsonString("alice"),
     JsonObject([f \in DOMAIN SavedMembers \ {"purpose"} |-> SavedMembers[f]]),
     JsonObject([f \in DOMAIN SavedMembers \ {"status"} |-> SavedMembers[f]]),
     JsonObject([f \in DOMAIN SavedMembers \cup {"extra"} |->
                   IF f = "extra" THEN JsonNull ELSE SavedMembers[f]]),
     JsonObject([SavedMembers EXCEPT !.status = JsonString("approved")]),
     JsonObject([SavedMembers EXCEPT !.data_source = JsonString("unknown_source")])}

\* stores no _save wrote: text that is not JSON, JSON that is not an object,
\* and objects holding an invalid record, alone or after a valid or another
\* invalid one
InvalidStores ==
    {Unparsable, JsonFile(JsonArray)}
      \cup {JsonFile(JsonObject(<<[k |-> <<"PR", 0, 1>>, v |-> r]>>)) : r \in InvalidRecords}
      \cup {JsonFile(JsonObject(<<[k |-> <<"PR", 0, 1>>, v |-> q],
                                  [k |-> <<"PR", 0, 2>>, v |-> r]>>)) :
               q \in {JsonObject(SavedMembers)} \cup InvalidRecords, r \in InvalidRecords}

\* one registry at one instant of the clock, queried by get, list and
\* has_permission between its creations and transitions
NextQuery ==
    \/ Create(Requesters, Sources, {None}, {0})
    \/ Grant({"admin"}, {None}, {0})
    \/ Revoke({"security"}, {None}, {0})
    \/ ListRequests(StatusFilters, SourceFilters, RequesterFilters)
    \/ GetRequest
    \/ HasPermission({"alice"}, {WORLD_BANK_API})

SpecQuery == Init /\ [][NextQuery]_vars

\* two registries on one store, used in turn and constructed again
NextTwo ==
    \/ Create({"alice"}, {WORLD_BANK_API}, {None}, {0})
    \/ Grant({"admin"}, {None}, {0})
    \/ SwitchInstance
    \/ Construct

SpecTwo == Init /\ [][NextTwo]_vars

\* transitions given no notes, empty notes and new notes, on requests
\* created with and without notes
NextNotes ==
    \/ Create({"alice"}, {WORLD_BANK_API}, CreateNotes, {0})
    \/ Grant({"admin"}, TransitionNotes, {0})
    \/ Deny({"admin"}, TransitionNotes, {0})
    \/ Revoke({"security"}, TransitionNotes, {0})

SpecNotes == Init /\ [][NextNotes]_vars

\* a registry of one request at a time, for any data source, with and
\* without notes, taken through every status, saved and loaded again
NextSerial ==
    \/ requests = <<>> /\ Create({"alice"}, DataSource, CreateNotes, {0})
    \/ Grant({"admin"}, {None}, {0})
    \/ Deny({"admin"}, {None}, {0})
    \/ Revoke({"security"}, {None}, {0})
    \/ clear_all
    \/ Construct

SpecSerial == Init /\ [][NextSerial]_vars

\* requests of every requester for every source, with and without notes,
\* created in registries that are cleared and constructed again
NextCreate ==
    \/ Create(Requesters, Sources, CreateNotes, Times)
    \/ clear_all
    \/ Construct

SpecCreate == Init /\ [][NextCreate]_vars

\* registries constructed on stores of any content
NextLoad ==
    \/ Create({"alice"}, {WORLD_BANK_API}, {None}, {0})
    \/ Grant({"admin"}, {None}, {0})
    \/ WriteFile(InvalidStores)
    \/ Construct

SpecLoad == Init /\ [][NextLoad]_vars

-----------------------------------------------------------------------------
(* Properties *)

Transitions == {"grant", "deny", "revoke"}

\* the request the last call named, before and after the call
Target == Get(requests, last'.request_id)

TargetAfter == Get(requests', last'.request_id)

\* the request the last call named, in the state the call left
LastRequest == Get(requests, last.request_id)

\* some stored request of that requester and data source is granted
GrantedFor(reqs, requester, data_source) ==
    \E i \in DOMAIN reqs :
        /\ reqs[i].v.requester = requester
        /\ reqs[i].v.data_source = data_source
        /\ reqs[i].v.status = GRANTED

\* C1: every change of a stored request's status is Pending to Granted,
\* Pending to Denied or Granted to Revoked.
C1_StatusSteps ==
    [][\A id \in Keys(requests) \cap Keys(requests') :
         Get(requests, id).status # Get(requests', id).status
           => <<Get(requests, id).status, Get(requests', id).status>>
                \in {<<PENDING, GRANTED>>, <<PENDING, DENIED>>, <<GRANTED, REVOKED>>}]_vars

\* all three steps have been taken: one request went Pending, Granted,
\* Revoked and another Pending, Denied
C1_Witness ==
    \E i, j \in DOMAIN requests :
        requests[i].v.status = REVOKED /\ requests[j].v.status = DENIED

\* C2: a request whose status is Denied or Revoked keeps that status in
\* every step in which it stays in the registry.
C2_TerminalStatuses ==
    [][\A id \in Keys(requests) \cap Keys(requests') :
         Get(requests, id).status \in {DENIED, REVOKED}
           => Get(requests', id).status = Get(requests, id).status]_vars

\* a grant, deny or revoke was just attempted on a Revoked request
C2_Witness ==
    /\ last.op \in Transitions
    /\ last.result = "ValueError"
    /\ last.message = "revoked"
    /\ LastRequest.status = REVOKED

\* C3: grant on a Pending request succeeds and leaves it Granted, with
\* granted_by the supplied actor and updated_at >= created_at.
C3_GrantPending ==
    [][(/\ last'.op = "grant"
        /\ HasKey(requests, last'.request_id)
        /\ Target.status = PENDING)
         => /\ last'.result = "ok"
            /\ TargetAfter.status = GRANTED
            /\ TargetAfter.granted_by = last'.actor
            /\ TargetAfter.updated_at >= TargetAfter.created_at]_vars

\* a grant by "security" went through after the clock had advanced
C3_Witness ==
    /\ last.op = "grant"
    /\ last.result = "ok"
    /\ last.actor = "security"
    /\ LastRequest.status = GRANTED
    /\ LastRequest.updated_at > LastRequest.created_at

\* C4: deny on a Pending request succeeds and leaves it Denied, with
\* granted_by the supplied denying actor.
C4_DenyPending ==
    [][(/\ last'.op = "deny"
        /\ HasKey(requests, last'.request_id)
        /\ Target.status = PENDING)
         => /\ last'.result = "ok"
            /\ TargetAfter.status = DENIED
            /\ TargetAfter.granted_by = last'.actor]_vars

\* a deny by "admin" went through
C4_Witness ==
    /\ last.op = "deny"
    /\ last.result = "ok"
    /\ last.actor = "admin"
    /\ LastRequest.status = DENIED

\* C5: revoke on a Granted request succeeds and leaves it Revoked, with
\* granted_by the supplied revoking actor in place of the grantor.
C5_RevokeGranted ==
    [][(/\ last'.op = "revoke"
        /\ HasKey(requests, last'.request_id)
        /\ Target.status = GRANTED)
         => /\ last'.result = "ok"
            /\ TargetAfter.status = REVOKED
            /\ TargetAfter.granted_by = last'.actor]_vars

\* two granted requests, one of them since revoked by "security" while the
\* other still names its grantor "admin"
C5_Witness ==
    /\ last.op = "revoke"
    /\ last.result = "ok"
    /\ last.actor = "security"
    /\ LastRequest.status = REVOKED
    /\ LastRequest.granted_by = "security"
    /\ \E i \in DOMAIN requests :
         requests[i].v.status = GRANTED /\ requests[i].v.granted_by = "admin"

\* C6: grant or deny on a stored request that is not Pending, and revoke on
\* a stored request that is not Granted, raise ValueError and leave the
\* registry and the store as they were.
C6_InvalidTransition ==
    [][(/\ last'.op \in Transitions
        /\ HasKey(requests, last'.request_id)
        /\ \/ last'.op \in {"grant", "deny"} /\ Target.status # PENDING
           \/ last'.op = "revoke" /\ Target.status # GRANTED)
         => /\ last'.result = "ValueError"
            /\ requests' = requests
            /\ store' = store]_vars

\* revoke was just refused on a request that is still Pending
C6_Witness ==
    /\ last.op = "revoke"
    /\ last.result = "ValueError"
    /\ last.message = "pending"
    /\ LastRequest.status = PENDING

\* C7: grant, deny and revoke with a request_id that is not stored raise
\* KeyError, which is not the ValueError of an invalid transition, and leave
\* the registry and the store as they were.
C7_NotFound ==
    [][(/\ last'.op \in Transitions
        /\ ~HasKey(requests, last'.request_id))
         => /\ last'.result = "KeyError"
            /\ last'.result # "ValueError"
            /\ requests' = requests
            /\ store' = store
            /\ ~HasKey(requests', last'.request_id)]_vars

\* revoke was just called with an unknown id on a registry that holds a
\* granted request
C7_Witness ==
    /\ last.op = "revoke"
    /\ last.result = "KeyError"
    /\ ~HasKey(requests, last.request_id)
    /\ \E i \in DOMAIN requests : requests[i].v.status = GRANTED

\* C8: has_permission(r, s) returns true iff some stored request has
\* requester r, data source s and status Granted.
C8_HasPermission ==
    last.op = "has_permission"
      => (last.answer <=> GrantedFor(requests, last.requester, last.data_source))

\* has_permission returned false although requests of that requester are
\* stored: one granted for another source, one revoked for this source
C8_Witness ==
    /\ last.op = "has_permission"
    /\ ~last.answer
    /\ \E i, j \in DOMAIN requests :
         /\ requests[i].v.requester = last.requester
         /\ requests[i].v.data_source # last.data_source
         /\ requests[i].v.status = GRANTED
         /\ requests[j].v.requester = last.requester
         /\ requests[j].v.data_source = last.data_source
         /\ requests[j].v.status = REVOKED

\* what has_permission returns for the requester and data source of the
\* request the last call named
LastHasPermission ==
    has_permission_from(requests, 1, LastRequest.requester, LastRequest.data_source)

\* another stored request of the same requester and data source is granted
OtherGranted ==
    \E i \in DOMAIN requests :
        /\ requests[i].k # last.request_id
        /\ requests[i].v.requester = LastRequest.requester
        /\ requests[i].v.data_source = LastRequest.data_source
        /\ requests[i].v.status = GRANTED

\* C9 as stated: has_permission(r, s) is true right after a successful
\* grant of a request of r for s and false right after a successful revoke
\* of it.
C9_AsStated ==
    /\ (last.op = "grant" /\ last.result = "ok") => LastHasPermission
    /\ (last.op = "revoke" /\ last.result = "ok") => ~LastHasPermission

\* C9: has_permission(r, s) is true right after a successful grant of a
\* request of r for s; right after a successful revoke of it, it is true
\* exactly when another stored request of r for s is Granted.
C9_GrantThenRevoke ==
    /\ (last.op = "grant" /\ last.result = "ok") => LastHasPermission
    /\ (last.op = "revoke" /\ last.result = "ok")
         => (LastHasPermission <=> OtherGranted)

\* a revoke went through while another request of the same requester and
\* source stays granted
C9_Witness ==
    /\ last.op = "revoke"
    /\ last.result = "ok"
    /\ OtherGranted

\* C10: create never returns a request_id that an earlier create on the
\* registry returned.
C10_DistinctIds ==
    [][last'.op = "create" => last'.ret \notin returned]_vars

\* two creations in the same clock second returned two ids
C10_Witness ==
    /\ last.op = "create"
    /\ \E a, b \in returned : a # b /\ a[2] = b[2]

\* C11: on one store, over create, grant, deny, revoke and clear_all, the id
\* create generates differs from every id that is stored or was stored
\* before, the ids of requests a clear_all discarded included.
C11_FreshAgainstHistory ==
    [][last'.op = "create"
         => last'.ret \notin (returned \cup Keys(requests))]_vars

Mutations == {"create", "grant", "deny", "revoke"}

\* C12: after every create, grant, deny or revoke that completed, the store
\* holds the registry's state: a fresh registry constructed on it lists as
\* many requests as the registry does, with the same value in every field.
C12_StoreHoldsState ==
    (last.op \in Mutations /\ last.result = "ok")
      => /\ _load_raises(store) = None
         /\ Len(list_filtered(_load(store), None, None, None))
              = Len(list_filtered(requests, None, None, None))
         /\ list_filtered(_load(store), None, None, None)
              = list_filtered(requests, None, None, None)

\* a grant completed on a registry of two requests that differ in requester,
\* data source and status
C12_Witness ==
    /\ last.op = "grant" /\ last.result = "ok"
    /\ Len(requests) = 2
    /\ requests[1].v.requester # requests[2].v.requester
    /\ requests[1].v.data_source # requests[2].v.data_source
    /\ requests[1].v.status # requests[2].v.status

\* C13: clear_all completes without error in any state, leaves the registry
\* listing nothing and the store absent, and a fresh registry constructed on
\* the store afterwards is empty.
C13_ClearAll ==
    last.op = "clear_all"
      => /\ last.result = "ok"
         /\ list_filtered(requests, None, None, None) = <<>>
         /\ ~store.exists
         /\ _load_raises(store) = None
         /\ _load(store) = <<>>

\* clear_all was called on a registry that had created requests
C13_Witness ==
    /\ last.op = "clear_all"
    /\ returned # {}

\* C14: constructing a registry never fails because of what the store holds:
\* on an absent store, and on a store whose content is unparsable or
\* structurally invalid, construction completes with an empty registry.
C14_ConstructNeverFails ==
    last.op = "construct"
      => /\ last.result = "ok"
         /\ store \in InvalidStores \cup {Absent} => requests = <<>>

\* the request the last create returned
LastCreated == Get(requests, last.ret)

\* C15: create returns a request that is stored under the returned id, with
\* status Pending, the requester, data source, purpose and notes supplied
\* and no granted_by, and the store holds it when create returns.
C15_Create ==
    last.op = "create"
      => /\ last.result = "ok"
         /\ HasKey(requests, last.ret)
         /\ LastCreated.request_id = last.ret
         /\ LastCreated.status = PENDING
         /\ LastCreated.requester = last.requester
         /\ LastCreated.data_source = last.data_source
         /\ LastCreated.purpose = last.purpose
         /\ LastCreated.notes = last.notes
         /\ LastCreated.granted_by = None
         /\ store.exists
         /\ _load_raises(store) = None
         /\ HasKey(_load(store), last.ret)
         /\ Get(_load(store), last.ret) = LastCreated

\* a request was created with notes, as the second of its registry
C15_Witness ==
    /\ last.op = "create"
    /\ last.notes = "n0"
    /\ Len(requests) = 2
    /\ requests[2].k = last.ret

\* C16: when grant, deny or revoke fails because the transition is invalid,
\* the status its error reports is the status the request has at the moment
\* of the call.
C16_ReportedStatus ==
    [][(last'.op \in Transitions /\ last'.result = "ValueError")
         => /\ HasKey(requests, last'.request_id)
            /\ last'.message = EnumValue(Target.status)]_vars

\* a grant was just refused on a Denied request, and reported "denied"
C16_Witness ==
    /\ last.op = "grant"
    /\ last.result = "ValueError"
    /\ last.message = "denied"
    /\ LastRequest.status = DENIED

\* the request passes every filter the last list call supplied
MatchesLast(r) ==
    /\ last.status # None => r.status = last.status
    /\ last.data_source # None => r.data_source = last.data_source
    /\ last.requester # None => r.requester = last.requester

\* C17: list(status, data_source, requester) returns exactly the stored
\* requests that match every supplied filter, all stored requests when no
\* filter is supplied, and never a request that is not stored.
C17_ListFilters ==
    last.op = "list"
      => /\ last.result = "ok"
         /\ \A i \in DOMAIN last.out :
               /\ MatchesLast(last.out[i])
               /\ \E j \in DOMAIN requests : requests[j].v = last.out[i]
         /\ \A j \in DOMAIN requests :
               MatchesLast(requests[j].v)
                 => \E i \in DOMAIN last.out : last.out[i] = requests[j].v
         /\ Len(last.out) = Cardinality({j \in DOMAIN requests : MatchesLast(requests[j].v)})
         /\ (last.status = None /\ last.data_source = None /\ last.requester = None)
               => Len(last.out) = Len(requests)

\* a list with all three filters returned one of two stored requests
C17_Witness ==
    /\ last.op = "list"
    /\ last.status # None /\ last.data_source # None /\ last.requester # None
    /\ Len(requests) = 2
    /\ Len(last.out) = 1
    /\ \E j \in DOMAIN requests :
          /\ requests[j].v.status = last.status
          /\ requests[j].v.data_source = last.data_source
          /\ requests[j].v.requester # last.requester

\* the request ids of a sequence of entries, and of a list of requests
KeySeq(d) == [i \in DOMAIN d |-> d[i].k]

IdSeq(rs) == [i \in DOMAIN rs |-> rs[i].request_id]

Queries == {"get", "list", "has_permission"}

\* C18: list returns requests in the order they were created: create puts
\* the new request behind all others, grant, deny and revoke leave every
\* request at its position, a list without filters returns the requests in
\* that order and one with filters returns them in the same relative
\* order, and the registry loaded from the store has the same order.
C18_CreationOrder ==
    [][/\ last'.op = "create"
            => KeySeq(requests') = Append(KeySeq(requests), last'.ret)
       /\ last'.op \in Transitions \cup Queries
            => KeySeq(requests') = KeySeq(requests)
       /\ last'.op = "list"
            => /\ \A i, j \in DOMAIN last'.out :
                    i < j => IndexOf(requests, last'.out[i].request_id)
                               < IndexOf(requests, last'.out[j].request_id)
               /\ (last'.status = None /\ last'.data_source = None
                     /\ last'.requester = None)
                    => IdSeq(last'.out) = KeySeq(requests)
       /\ last'.op \in Mutations
            => KeySeq(_load(store')) = KeySeq(requests')]_vars

\* a list without filters returned two requests, the one created first
\* already granted and revoked, the one created second still Pending
C18_Witness ==
    /\ last.op = "list"
    /\ last.status = None /\ last.data_source = None /\ last.requester = None
    /\ Len(last.out) = 2
    /\ last.out[1].request_id[3] = 1 /\ last.out[1].status = REVOKED
    /\ last.out[2].request_id[3] = 2 /\ last.out[2].status = PENDING

\* C19: get(request_id) never fails: it returns the request stored under the
\* id, and None exactly when no request is stored under it, which is when
\* grant, deny and revoke raise not-found for the id.
C19_Get ==
    last.op = "get"
      => /\ last.result = "ok"
         /\ HasKey(requests, last.request_id)
              => last.out = <<Get(requests, last.request_id)>>
         /\ ~HasKey(requests, last.request_id) => last.out = <<>>

\* get was asked for an id that never was stored, on a registry that holds
\* requests
C19_Witness ==
    /\ last.op = "get"
    /\ last.request_id = NonexistentId
    /\ last.out = <<>>
    /\ requests # <<>>

\* C20: get, list and has_permission never fail and leave the registry and
\* the store as they were; on a registry whose store is absent they do not
\* create the store.
C20_QueriesReadOnly ==
    [][last'.op \in Queries
         => /\ last'.result = "ok"
            /\ requests' = requests
            /\ store' = store
            /\ ~store.exists => ~store'.exists]_vars

\* a query was answered on a registry whose store is absent
C20_Witness ==
    /\ last.op \in Queries
    /\ ~store.exists

\* C21: to_dict writes data_source and status as the string values of their
\* enumerations, and from_dict of the to_dict of any request gives a request
\* equal to it in every field.
C21_RoundTrip ==
    \A i \in DOMAIN requests :
        /\ to_dict(requests[i].v).data_source
             \in {"world_bank_api", "openaq_kaggle", "custom"}
        /\ to_dict(requests[i].v).data_source = EnumValue(requests[i].v.data_source)
        /\ to_dict(requests[i].v).status
             \in {"pending", "granted", "denied", "revoked"}
        /\ to_dict(requests[i].v).status = EnumValue(requests[i].v.status)
        /\ ~IsRaised(from_dict(to_dict(requests[i].v)))
        /\ from_dict(to_dict(requests[i].v)) = requests[i].v

\* a Revoked request for the custom source, with notes and a granted_by,
\* in a registry loaded from the store
C21_Witness ==
    /\ last.op = "construct"
    /\ \E i \in DOMAIN requests :
          /\ requests[i].v.status = REVOKED
          /\ requests[i].v.data_source = CUSTOM
          /\ requests[i].v.notes = "n0"
          /\ requests[i].v.granted_by = "security"

\* C22: once a request is created, its request_id, requester, data_source,
\* purpose and created_at never change: every grant, deny and revoke,
\* successful or failed, leaves these five fields of the request as they
\* were.
C22_ImmutableFields ==
    [][\A id \in Keys(requests) \cap Keys(requests') :
         /\ Get(requests', id).request_id = Get(requests, id).request_id
         /\ Get(requests', id).request_id = id
         /\ Get(requests', id).requester = Get(requests, id).requester
         /\ Get(requests', id).data_source = Get(requests, id).data_source
         /\ Get(requests', id).purpose = Get(requests, id).purpose
         /\ Get(requests', id).created_at = Get(requests, id).created_at]_vars

\* a request created at one instant was just revoked at a later one
C22_Witness ==
    /\ last.op = "revoke" /\ last.result = "ok"
    /\ LastRequest.status = REVOKED
    /\ LastRequest.created_at < LastRequest.updated_at

\* C23: with a clock that never goes backwards, every stored request has
\* created_at <= updated_at in every state, and the updated_at of a request
\* never decreases.
C23_Timestamps ==
    [][/\ \A id \in Keys(requests') :
            Get(requests', id).created_at <= Get(requests', id).updated_at
       /\ \A id \in Keys(requests) \cap Keys(requests') :
            Get(requests, id).updated_at <= Get(requests', id).updated_at]_vars

\* a request whose creation read the clock at two instants was denied at
\* the later one
C23_Witness ==
    /\ last.op = "deny" /\ last.result = "ok"
    /\ \E i \in DOMAIN requests :
          /\ requests[i].v.status = PENDING
          /\ requests[i].v.created_at < requests[i].v.updated_at
    /\ LastRequest.updated_at = clock

\* C24: a successful grant, deny or revoke replaces the request's notes by
\* the notes supplied if and only if these are a non-empty string; with
\* notes omitted or empty the request keeps the notes it had, so no
\* transition clears notes.
C24_Notes ==
    [][(last'.op \in Transitions /\ last'.result = "ok")
         => /\ last'.notes \notin {None, ""} => TargetAfter.notes = last'.notes
            /\ last'.notes \in {None, ""} => TargetAfter.notes = Target.notes
            /\ Target.notes \notin {None, ""} => TargetAfter.notes \notin {None, ""}]_vars

\* a request created with notes was just granted with empty notes and has
\* the notes it was created with
C24_Witness ==
    /\ last.op = "grant" /\ last.result = "ok"
    /\ last.notes = ""
    /\ LastRequest.notes = "n0"

\* C25: when create returns, the new request's created_at and updated_at
\* are equal, also when the clock advances while create runs.
C25_OneCreationInstant ==
    last.op = "create"
      => LastCreated.created_at = LastCreated.updated_at

\* C26: with two registries constructed on one store there is no locking
\* and no reloading: a mutation works on the in-memory state of the
\* registry that makes it, and after it the store holds exactly that
\* registry's state, so what the other registry created or changed since
\* is not in the store.
C26_LastWriterWins ==
    [][/\ last'.op = "switch"
            => requests' = peer /\ peer' = requests /\ store' = store
       /\ (last'.op \in Mutations /\ last'.result = "ok")
            => /\ peer' = peer
               /\ Keys(requests') = Keys(requests) \cup {last'.ret}
               /\ _load_raises(store') = None
               /\ _load(store') = requests'
               /\ \A id \in Keys(peer') \ Keys(requests') :
                     ~HasKey(_load(store'), id)
               /\ \A id \in Keys(peer') \cap Keys(requests') :
                     Get(_load(store'), id) = Get(requests', id)]_vars

\* the registry in use has just written the store, and the store lacks one
\* request of the other registry and has another one Pending that the
\* other registry holds Granted
C26_Witness ==
    /\ last.op \in Mutations /\ last.result = "ok"
    /\ \E id \in Keys(peer) : ~HasKey(_load(store), id)
    /\ \E id \in Keys(peer) \cap Keys(requests) :
          /\ Get(peer, id).status = GRANTED
          /\ Get(_load(store), id).status = PENDING

\* C27: a successful grant, deny or revoke changes only the request it
\* names: every other stored request keeps all its fields, and no request
\* id is added to or removed from the registry.
C27_OnlyTarget ==
    [][(last'.op \in Transitions /\ last'.result = "ok")
         => /\ Keys(requests') = Keys(requests)
            /\ Len(requests') = Len(requests)
            /\ \A id \in Keys(requests) \ {last'.request_id} :
                  Get(requests', id) = Get(requests, id)]_vars

\* a request was just revoked in a registry that also holds a Denied one
C27_Witness ==
    /\ last.op = "revoke" /\ last.result = "ok"
    /\ Len(requests) = 2
    /\ \E id \in Keys(requests) \ {last.request_id} :
          Get(requests, id).status = DENIED

\* C28: in one registry every create adds exactly one request and
\* overwrites none, so the number of stored requests is the number of
\* creates since the registry was empty: it starts at 0, grows by one with
\* each create, returns to 0 with clear_all and is left alone by grant,
\* deny and revoke, also when creations share a clock second.
C28_CreateAddsOne ==
    [][/\ last'.op = "create"
            => /\ last'.result = "ok"
               /\ ~HasKey(requests, last'.ret)
               /\ HasKey(requests', last'.ret)
               /\ Len(requests') = Len(requests) + 1
               /\ Cardinality(Keys(requests')) = Len(requests')
               /\ \A id \in Keys(requests) : Get(requests', id) = Get(requests, id)
       /\ last'.op = "clear_all" => Len(requests') = 0
       /\ last'.op \in Transitions => Len(requests') = Len(requests)]_vars

\* two requests created in the same clock second, after a clear_all that
\* discarded an earlier request, the first of the two granted before the
\* second was created
C28_Witness ==
    /\ last.op = "create"
    /\ Len(requests) = 2
    /\ requests[1].k[2] = requests[2].k[2]
    /\ requests[1].v.status = GRANTED
    /\ \E id \in returned : ~HasKey(requests, id)

\* C29: in a registry started on an absent or empty store and given actors
\* that are not None, a stored request has no granted_by exactly when its
\* status is Pending, in every state.
C29_ActorIffDecided ==
    \A i \in DOMAIN requests :
        (requests[i].v.granted_by = None) <=> (requests[i].v.status = PENDING)

\* a registry holding a Pending request without granted_by and a Revoked
\* one with the revoker as granted_by
C29_Witness ==
    \E i, j \in DOMAIN requests :
        /\ requests[i].v.status = PENDING /\ requests[i].v.granted_by = None
        /\ requests[j].v.status = REVOKED /\ requests[j].v.granted_by = "security"

\* the store is a file holding a JSON object
IsObjectFile(st) == st.exists /\ st.parses /\ st.data.t = "object"

\* a record whose status or data_source key is missing or holds a value
\* that is no value of the enumeration
EnumDefect(v) ==
    /\ v.t = "object"
    /\ \/ "status" \notin DOMAIN v.members
       \/ "data_source" \notin DOMAIN v.members
       \/ v.members.status
            \notin {JsonString(x) : x \in {"pending", "granted", "denied", "revoked"}}
       \/ v.members.data_source
            \notin {JsonString(x) : x \in {"world_bank_api", "openaq_kaggle", "custom"}}

\* a record that is a mapping with the other required fields and no
\* unknown one
Shaped(v) ==
    /\ v.t = "object"
    /\ DOMAIN v.members \subseteq FieldNames
    /\ {"request_id", "requester", "purpose"} \subseteq DOMAIN v.members

\* C30: loading is all-or-nothing and read-only: when a record of the store
\* has an unrecognised status or data_source value or lacks one of the two
\* keys, the registry constructed holds no request, the valid records of
\* the store included; construction leaves the store as it is, and the
\* first mutation overwrites it with the registry's state.
C30_AllOrNothingLoad ==
    [][/\ last'.op = "construct"
            => /\ store' = store
               /\ (/\ IsObjectFile(store)
                   /\ \E i \in DOMAIN store.data.members :
                         EnumDefect(store.data.members[i].v))
                    => /\ last'.result = "ok" => requests' = <<>>
                       /\ (\A i \in DOMAIN store.data.members :
                              Shaped(store.data.members[i].v))
                            => last'.result = "ok"
       /\ (last'.op \in Mutations /\ last'.result = "ok")
            => /\ _load_raises(store') = None
               /\ _load(store') = requests']_vars

\* a registry was constructed, empty, on a store whose first record is
\* valid and whose second has an unrecognised status or data_source
C30_Witness ==
    /\ last.op = "construct" /\ last.result = "ok"
    /\ requests = <<>>
    /\ returned = {}
    /\ IsObjectFile(store)
    /\ Len(store.data.members) = 2
    /\ ~EnumDefect(store.data.members[1].v) /\ Shaped(store.data.members[1].v)
    /\ EnumDefect(store.data.members[2].v) /\ Shaped(store.data.members[2].v)
    /\ "status" \in DOMAIN store.data.members[2].v.members
====
